---- MODULE Spec2Model ----
(***************************************************************************)
(* css-refactoring-tools: the three command-line scripts (convert-to-scss, *)
(* optimize, analyze) as one state machine, with the SCSS converter's      *)
(* extraction, naming and rendering functions as operators over strings.   *)
(* Strings are JavaScript strings; SubSeq(s, i, i) is the character s[i-1].*)
(***************************************************************************)
EXTENDS Integers, Sequences, FiniteSets, TLC

VARIABLES script, pc, subIdx, dirs, files, cssContent, parsedCSS, variables,
          error, errors, promise, exitCode

vars == <<script, pc, subIdx, dirs, files, cssContent, parsedCSS, variables,
          error, errors, promise, exitCode>>

(***************************************************************************)
(* Bounds of the model.                                                    *)
(***************************************************************************)
\* longest stylesheet (number of top-level nodes) built from the node pool
MaxRules == 2
\* half-width of the window of pixel magnitudes probed around each threshold
Delta == 1

(***************************************************************************)
(* String helpers: what the JavaScript built-ins used by the scripts do.   *)
(***************************************************************************)
Char(s, i) == SubSeq(s, i, i)

IsDigit(c) == c \in {"0", "1", "2", "3", "4", "5", "6", "7", "8", "9"}

IsHex(c) ==
    \/ IsDigit(c)
    \/ c \in {"a", "b", "c", "d", "e", "f", "A", "B", "C", "D", "E", "F"}

DigitVal(c) ==
    CASE c = "0" -> 0 [] c = "1" -> 1 [] c = "2" -> 2 [] c = "3" -> 3
      [] c = "4" -> 4 [] c = "5" -> 5 [] c = "6" -> 6 [] c = "7" -> 7
      [] c = "8" -> 8 [] c = "9" -> 9

\* String.prototype.includes(sub)
Includes(s, sub) ==
    \E i \in 1..(Len(s) - Len(sub) + 1) : SubSeq(s, i, i + Len(sub) - 1) = sub

\* s.startsWith(sub, i-1)
StartsAt(s, i, sub) ==
    /\ i + Len(sub) - 1 <= Len(s)
    /\ SubSeq(s, i, i + Len(sub) - 1) = sub

\* the value JavaScript's `null` takes in the model, where a string is expected
Null == "<null>"

\* a `const` not yet initialised, where an object is expected
Undefined == [undefined |-> TRUE]

\* end of the maximal run of digits starting at i (i - 1 when s[i] is no digit)
RECURSIVE DigitRunEnd(_, _)
DigitRunEnd(s, i) ==
    IF i <= Len(s) /\ IsDigit(Char(s, i)) THEN DigitRunEnd(s, i + 1) ELSE i - 1

\* parseInt(s) for a string that starts with a decimal digit (every caller passes
\* a match of /\d+px/): the value of the leading run of digits.
RECURSIVE DecimalValue(_, _, _)
DecimalValue(s, i, acc) ==
    IF i <= Len(s) /\ IsDigit(Char(s, i))
    THEN DecimalValue(s, i + 1, 10 * acc + DigitVal(Char(s, i)))
    ELSE acc

NaN == "NaN"

parseInt(s) ==
    IF Len(s) >= 1 /\ IsDigit(Char(s, 1)) THEN DecimalValue(s, 1, 0) ELSE NaN

\* value.match(/\d+px/): the leftmost match, \d+ greedy; Null when none.
\* At a start position the greedy run of digits must be followed by "px"
\* (giving digits back cannot help: the next character would be a digit).
PxMatchAt(s, i) ==
    LET e == DigitRunEnd(s, i)
    IN  IF e >= i /\ StartsAt(s, e + 1, "px") THEN SubSeq(s, i, e + 2) ELSE Null

RECURSIVE PxMatchFrom(_, _)
PxMatchFrom(s, i) ==
    IF i > Len(s) THEN Null
    ELSE IF PxMatchAt(s, i) # Null THEN PxMatchAt(s, i)
    ELSE PxMatchFrom(s, i + 1)

matchPx(s) == PxMatchFrom(s, 1)

\* end of the run of at most `left` hex digits starting at i
RECURSIVE HexRunEnd(_, _, _)
HexRunEnd(s, i, left) ==
    IF left > 0 /\ i <= Len(s) /\ IsHex(Char(s, i))
    THEN HexRunEnd(s, i + 1, left - 1)
    ELSE i - 1

\* end of the run of characters other than ")" starting at i
RECURSIVE NotParenRunEnd(_, _)
NotParenRunEnd(s, i) ==
    IF i <= Len(s) /\ Char(s, i) # ")" THEN NotParenRunEnd(s, i + 1) ELSE i - 1

\* first alternative of the color pattern at position i: #[0-9a-fA-F]{3,6}
HexColorAt(s, i) ==
    IF StartsAt(s, i, "#")
    THEN LET e == HexRunEnd(s, i + 1, 6)
         IN  IF e - i >= 3 THEN SubSeq(s, i, e) ELSE Null
    ELSE Null

\* second alternative at position i: rgba?\([^)]+\)
RgbColorAt(s, i) ==
    LET open == IF StartsAt(s, i, "rgba(") THEN i + 4
                ELSE IF StartsAt(s, i, "rgb(") THEN i + 3
                ELSE 0
        e == NotParenRunEnd(s, open + 1)
    IN  IF open # 0 /\ e > open /\ StartsAt(s, e + 1, ")")
        THEN SubSeq(s, i, e + 1)
        ELSE Null

ColorMatchAt(s, i) ==
    IF HexColorAt(s, i) # Null THEN HexColorAt(s, i) ELSE RgbColorAt(s, i)

RECURSIVE ColorMatchFrom(_, _)
ColorMatchFrom(s, i) ==
    IF i > Len(s) THEN Null
    ELSE IF ColorMatchAt(s, i) # Null THEN ColorMatchAt(s, i)
    ELSE ColorMatchFrom(s, i + 1)

\* value.match(/#[0-9a-fA-F]{3,6}|rgba?\([^)]+\)/): the leftmost match
matchColor(s) == ColorMatchFrom(s, 1)

(***************************************************************************)
(* extractVariables (convert-to-scss.js).  A JavaScript Set is kept as the *)
(* sequence of its elements in insertion order, which is the order         *)
(* Array.from(set) returns.                                                *)
(***************************************************************************)
Has(seq, x) == \E i \in 1..Len(seq) : seq[i] = x

\* Set.prototype.add
SetAdd(seq, x) == IF Has(seq, x) THEN seq ELSE Append(seq, x)

\* mutant of IsColorProperty: border properties forgotten
IsColorPropertyNoBorder(property) ==
    /\ property # ""
    /\ \/ Includes(property, "color")
       \/ Includes(property, "background")

IsColorProperty(property) ==
    /\ property # ""
    /\ \/ Includes(property, "color")
       \/ Includes(property, "background")
       \/ Includes(property, "border")

IsSpacingProperty(property) ==
    /\ property # ""
    /\ \/ Includes(property, "margin")
       \/ Includes(property, "padding")

\* the body of rule.declarations.forEach for one declaration
ScanDeclaration(acc, decl) ==
    IF decl.type # "declaration" THEN acc
    ELSE LET colorMatch   == matchColor(decl.value)
             spacingMatch == matchPx(decl.value)
             colors  == IF IsColorProperty(decl.property) /\ colorMatch # Null
                        THEN SetAdd(acc.colors, colorMatch)
                        ELSE acc.colors
             spacing == IF IsSpacingProperty(decl.property) /\ spacingMatch # Null
                        THEN SetAdd(acc.spacing, spacingMatch)
                        ELSE acc.spacing
         IN  [acc EXCEPT !.colors = colors, !.spacing = spacing]

RECURSIVE ScanDeclarations(_, _, _)
ScanDeclarations(acc, decls, i) ==
    IF i > Len(decls) THEN acc
    ELSE ScanDeclarations(ScanDeclaration(acc, decls[i]), decls, i + 1)

\* the body of parsedCSS.stylesheet.rules.forEach for one top-level node
ScanRule(acc, rule) ==
    LET afterDecls == IF rule.type = "rule"
                      THEN ScanDeclarations(acc, rule.declarations, 1)
                      ELSE acc
        breakpointMatch == matchPx(rule.media)
    IN  IF rule.type = "media" /\ breakpointMatch # Null
        THEN [afterDecls EXCEPT
                 !.breakpoints = SetAdd(afterDecls.breakpoints, breakpointMatch)]
        ELSE afterDecls

RECURSIVE ScanRules(_, _, _)
ScanRules(acc, rules, i) ==
    IF i > Len(rules) THEN acc
    ELSE ScanRules(ScanRule(acc, rules[i]), rules, i + 1)

\* mutant of compareInt: the operands swapped
compareIntDescending(a, b) == parseInt(b) - parseInt(a)

\* the comparator (a, b) => parseInt(a) - parseInt(b)
compareInt(a, b) == parseInt(a) - parseInt(b)

\* Array.prototype.sort(compare) is stable: an element goes after every element
\* already placed that does not compare greater than it.
InsertSorted(sorted, x) ==
    LET k == Cardinality({i \in 1..Len(sorted) : compareInt(sorted[i], x) <= 0})
    IN  SubSeq(sorted, 1, k) \o <<x>> \o SubSeq(sorted, k + 1, Len(sorted))

RECURSIVE SortFrom(_, _, _)
SortFrom(sorted, seq, i) ==
    IF i > Len(seq) THEN sorted
    ELSE SortFrom(InsertSorted(sorted, seq[i]), seq, i + 1)

sortByInt(seq) == SortFrom(<<>>, seq, 1)

extractVariables(parsed) ==
    LET sets == ScanRules([colors |-> <<>>, spacing |-> <<>>, breakpoints |-> <<>>],
                          parsed.stylesheet.rules, 1)
    IN  [colors      |-> sets.colors,
         spacing     |-> sortByInt(sets.spacing),
         breakpoints |-> sortByInt(sets.breakpoints)]

(***************************************************************************)
(* generateVariablesFile (convert-to-scss.js).                             *)
(***************************************************************************)
\* mutant of colorName: the default name counts from 0
colorNameZeroBased(color, index) ==
    LET n0 == "color-" \o ToString(index)
        n1 == IF color = "#0d0c0d" THEN "color-dark" ELSE n0
        n2 == IF color = "#f0f0f0" THEN "color-light" ELSE n1
        n3 == IF color = "#e6ac55" THEN "color-accent" ELSE n2
    IN  IF color = "#FFFFFF" \/ color = "#ffffff" THEN "color-white" ELSE n3

\* name of the color at 0-based position index: the default, then the four
\* overriding `if` statements in the order of the source
colorName(color, index) ==
    LET n0 == "color-" \o ToString(index + 1)
        n1 == IF color = "#0d0c0d" THEN "color-dark" ELSE n0
        n2 == IF color = "#f0f0f0" THEN "color-light" ELSE n1
        n3 == IF color = "#e6ac55" THEN "color-accent" ELSE n2
    IN  IF color = "#FFFFFF" \/ color = "#ffffff" THEN "color-white" ELSE n3

\* mutant of spacingBucket: each threshold compared with < instead of <=
spacingBucketStrict(size) ==
    IF size = 0 THEN "none"
    ELSE IF size < 4 THEN "xs"
    ELSE IF size < 8 THEN "sm"
    ELSE IF size < 16 THEN "md"
    ELSE IF size < 24 THEN "lg"
    ELSE IF size < 32 THEN "xl"
    ELSE "xxl"

spacingBucket(size) ==
    IF size = 0 THEN "none"
    ELSE IF size <= 4 THEN "xs"
    ELSE IF size <= 8 THEN "sm"
    ELSE IF size <= 16 THEN "md"
    ELSE IF size <= 24 THEN "lg"
    ELSE IF size <= 32 THEN "xl"
    ELSE "xxl"

\* variables.spacing.filter(s => parseInt(s) === size).length > 1
needsSuffix(spacing, size) ==
    Cardinality({i \in 1..Len(spacing) : parseInt(spacing[i]) = size}) > 1

\* name of the spacing value at 0-based position index of the sequence spacing
spacingName(spacing, value, index) ==
    LET size == parseInt(value)
        name == "spacing-" \o spacingBucket(size)
    IN  IF needsSuffix(spacing, size) THEN name \o "-" \o ToString(index) ELSE name

\* mutant of breakpointName: each threshold compared with < instead of <=
breakpointNameStrict(value) ==
    LET size == parseInt(value)
    IN  "breakpoint-" \o
        (IF size < 480 THEN "mobile"
         ELSE IF size < 768 THEN "tablet"
         ELSE IF size < 1024 THEN "desktop"
         ELSE IF size < 1280 THEN "widescreen"
         ELSE "ultrawide")

breakpointName(value) ==
    LET size == parseInt(value)
    IN  "breakpoint-" \o
        (IF size <= 480 THEN "mobile"
         ELSE IF size <= 768 THEN "tablet"
         ELSE IF size <= 1024 THEN "desktop"
         ELSE IF size <= 1280 THEN "widescreen"
         ELSE "ultrawide")

\* scss += `$${name}: ${value};\n`
assignmentLine(name, value) == "$" \o name \o ": " \o value \o ";\n"

RECURSIVE renderColors(_, _, _)
renderColors(scss, colors, i) ==
    IF i > Len(colors) THEN scss
    ELSE renderColors(scss \o assignmentLine(colorName(colors[i], i - 1), colors[i]),
                      colors, i + 1)

RECURSIVE renderSpacing(_, _, _)
renderSpacing(scss, spacing, i) ==
    IF i > Len(spacing) THEN scss
    ELSE renderSpacing(
             scss \o assignmentLine(spacingName(spacing, spacing[i], i - 1), spacing[i]),
             spacing, i + 1)

\* mutant of renderBreakpoints: a name already used by the entry before is not
\* written again, so its value is dropped
RECURSIVE renderBreakpointsOncePerName(_, _, _)
renderBreakpointsOncePerName(scss, breakpoints, i) ==
    IF i > Len(breakpoints) THEN scss
    ELSE IF i > 1 /\ breakpointName(breakpoints[i]) = breakpointName(breakpoints[i - 1])
    THEN renderBreakpointsOncePerName(scss, breakpoints, i + 1)
    ELSE renderBreakpointsOncePerName(
             scss \o assignmentLine(breakpointName(breakpoints[i]), breakpoints[i]),
             breakpoints, i + 1)

RECURSIVE renderBreakpoints(_, _, _)
renderBreakpoints(scss, breakpoints, i) ==
    IF i > Len(breakpoints) THEN scss
    ELSE renderBreakpoints(
             scss \o assignmentLine(breakpointName(breakpoints[i]), breakpoints[i]),
             breakpoints, i + 1)

generateVariablesFile(vs) ==
    LET s1 == renderColors("// Color Variables\n", vs.colors, 1)
        s2 == renderSpacing(s1 \o "\n// Spacing Variables\n", vs.spacing, 1)
    IN  renderBreakpoints(s2 \o "\n// Breakpoint Variables\n", vs.breakpoints, 1)

(***************************************************************************)
(* The other generated files.  The mixins file and the two sample          *)
(* component files are fixed templates; each is kept by its first line.    *)
(***************************************************************************)
dirNames == <<"base", "components", "layout", "utilities">>

generateMixinsFile == "// Responsive Mixins\n"

\* dir.charAt(0).toUpperCase() + dir.slice(1), for the four directory names
Capitalized(dir) ==
    CASE dir = "base" -> "Base"
      [] dir = "components" -> "Components"
      [] dir = "layout" -> "Layout"
      [] dir = "utilities" -> "Utilities"

RECURSIVE renderImports(_, _, _)
renderImports(imports, ds, i) ==
    IF i > Len(ds) THEN imports
    ELSE IF ds[i] = "base" THEN renderImports(imports, ds, i + 1)
    ELSE renderImports(imports \o "// " \o Capitalized(ds[i]) \o "\n"
                               \o "@import \"" \o ds[i] \o "/**/*\";\n\n",
                       ds, i + 1)

generateMainFile(ds) ==
    renderImports("// Main SCSS File\n\n"
                      \o "// Base styles\n"
                      \o "@import \"base/variables\";\n"
                      \o "@import \"base/mixins\";\n"
                      \o "@import \"base/reset\";\n"
                      \o "@import \"base/typography\";\n\n",
                  ds, 1)

generateSampleComponentFile(type) ==
    IF type = "buttons" THEN "// Button Component Styles\n"
    ELSE IF type = "sections" THEN "// Section Component Styles\n"
    ELSE "// Sample component file"

(***************************************************************************)
(* Inputs.  The external parser hands the converter a tree of top-level    *)
(* nodes; the model draws it from the sequences of at most MaxRules nodes  *)
(* of a pool, and from one-node sheets probing each naming threshold.      *)
(***************************************************************************)
Decl(property, value) ==
    [type |-> "declaration", property |-> property, value |-> value]

Rule(declarations) == [type |-> "rule", declarations |-> declarations]

Media(media, rules) == [type |-> "media", media |-> media, rules |-> rules]

Nodes ==
    { Rule(<<Decl("color", "#e6ac55"), Decl("margin", "8px 0 8px 0"),
             Decl("margin-left", "auto"), Decl("padding", "8px")>>),
      Rule(<<Decl("background", "#FFFFFF"),
             Decl("padding", "16px 16px 16px 16px")>>),
      Rule(<<Decl("border", "1px solid #ffffff"), Decl("margin-top", "5px")>>),
      Rule(<<Decl("background-color", "rgba(0, 0, 0, 0.5)"),
             Decl("padding-left", "08px"), Decl("padding-right", "8px")>>),
      Rule(<<Decl("color", "red"), Decl("margin", "auto"),
             [type |-> "comment", comment |-> " margin: 2px "],
             Decl("width", "100px"), Decl("border-color", "#E6AC55"),
             Decl("margin-bottom", "1em 4px")>>),
      Rule(<<Decl("outline-color", "#fff"), Decl("color", "#0d0c0d"),
             Decl("background", "linear-gradient(#f0f0f0ff, #000)"),
             Decl("margin", "10px 20px 10px 20px")>>),
      Media("(max-width: 600px)",
            <<Rule(<<Decl("color", "#123456"), Decl("margin", "48px")>>)>>),
      Media("screen and (min-width: 500px) and (max-width: 1024px)", <<>>),
      Media("(min-width: 0600px)", <<>>),
      Media("print", <<>>),
      [type |-> "font-face",
       declarations |-> <<Decl("margin", "3px"), Decl("color", "#abcdef")>>] }

SeqsUpTo(S, n) == UNION {[1..k -> S] : k \in 0..n}

Window(thresholds) == {t + d : t \in thresholds, d \in -Delta..Delta} \cap Nat

SpacingProbes == Window({0, 4, 8, 16, 24, 32})

BreakpointProbes == Window({480, 768, 1024, 1280})

ProbeSheets ==
    {<<Rule(<<Decl("padding", ToString(n) \o "px")>>)>> : n \in SpacingProbes}
        \cup
    {<<Media("(min-width: " \o ToString(n) \o "px)", <<>>)>> : n \in BreakpointProbes}

Stylesheets == {[rules |-> rs] : rs \in SeqsUpTo(Nodes, MaxRules) \cup ProbeSheets}

\* the paths the scripts touch, relative to the working directory
OUTPUT_DIR == "scss"

OUTPUT_FILE == "css/optimized.css"

join(dir, name) == dir \o "/" \o name

FileNames ==
    { join(join(OUTPUT_DIR, "base"), "_variables.scss"),
      join(join(OUTPUT_DIR, "base"), "_mixins.scss"),
      join(OUTPUT_DIR, "main.scss"),
      join(join(OUTPUT_DIR, "components"), "_buttons.scss"),
      join(join(OUTPUT_DIR, "components"), "_sections.scss"),
      OUTPUT_FILE }

SubDirs == {join(OUTPUT_DIR, dirNames[i]) : i \in 1..Len(dirNames)}

\* the directories found on disk when the converter starts
InitialDirs ==
    { {},
      {OUTPUT_DIR},
      {OUTPUT_DIR, join(OUTPUT_DIR, "base"), join(OUTPUT_DIR, "layout")},
      {OUTPUT_DIR} \cup SubDirs }

Scripts == {"convert", "optimize", "analyze"}

(***************************************************************************)
(* State.                                                                  *)
(*   script     which of the three scripts this process runs               *)
(*   pc         the statement the async entry function is at               *)
(*   subIdx     position of dirs.forEach in the directory list             *)
(*   dirs       directories that exist on disk                             *)
(*   files      content of each output file (Null: not written)            *)
(*   cssContent text of the input file, once read (Null before)            *)
(*   parsedCSS  result of css.parse                                        *)
(*   variables  result of extractVariables                                 *)
(*   error      the exception thrown (Null: none), named by its thrower    *)
(*   errors     what console.error printed: <<prefix, error>> pairs        *)
(*   promise    state of the promise the entry function returned           *)
(*   exitCode   exit status of the process (Null: still running)           *)
(***************************************************************************)
Init ==
    /\ script \in Scripts
    /\ pc = "read"
    /\ subIdx = 1
    /\ dirs \in (IF script = "convert" THEN InitialDirs ELSE {{}})
    /\ files = [f \in FileNames |-> Null]
    /\ cssContent = Null
    /\ parsedCSS = Undefined
    /\ variables = Undefined
    /\ error = Null
    /\ errors = <<>>
    /\ promise = "pending"
    /\ exitCode = Null

\* the text fs.readFileSync returns; the model does not look inside it
InputText == "<css>"

\* a call that throws: control passes to the catch clause of the entry function
Throw(thrower) ==
    /\ pc' = "catch"
    /\ error' = thrower

\* mutant of WriteFileSync: a failed write is passed over and the run goes on
WriteFileSyncBestEffort(path, content, next) ==
    /\ pc' = next
    /\ UNCHANGED error
    /\ \/ files' = [files EXCEPT ![path] = content]
       \/ UNCHANGED files

\* fs.writeFileSync(path, content), then the statement at `next`
WriteFileSync(path, content, next) ==
    \/ /\ files' = [files EXCEPT ![path] = content]
       /\ pc' = next
       /\ UNCHANGED error
    \/ /\ Throw("writeFileSync")
       /\ UNCHANGED files

(***************************************************************************)
(* convertToSCSS (convert-to-scss.js)                                      *)
(***************************************************************************)
ConvertRead ==
    /\ script = "convert" /\ pc = "read"
    /\ \/ cssContent' = InputText /\ pc' = "parse" /\ UNCHANGED error
       \/ Throw("readFileSync") /\ UNCHANGED cssContent
    /\ UNCHANGED <<script, subIdx, dirs, files, parsedCSS, variables, errors,
                   promise, exitCode>>

ConvertParse ==
    /\ script = "convert" /\ pc = "parse"
    /\ \/ \E sheet \in Stylesheets :
             /\ parsedCSS' = [stylesheet |-> sheet]
             /\ pc' = "mkdirOut"
             /\ UNCHANGED error
       \/ Throw("css.parse") /\ UNCHANGED parsedCSS
    /\ UNCHANGED <<script, cssContent, subIdx, dirs, files, variables, errors,
                   promise, exitCode>>

ConvertMkdirOut ==
    /\ script = "convert" /\ pc = "mkdirOut"
    /\ IF OUTPUT_DIR \notin dirs
       THEN \/ dirs' = dirs \cup {OUTPUT_DIR} /\ pc' = "mkdirSub" /\ UNCHANGED error
            \/ Throw("mkdirSync") /\ UNCHANGED dirs
       ELSE pc' = "mkdirSub" /\ UNCHANGED <<dirs, error>>
    /\ UNCHANGED <<script, cssContent, subIdx, files, parsedCSS, variables, errors,
                   promise, exitCode>>

\* one iteration of dirs.forEach
ConvertMkdirSub ==
    /\ script = "convert" /\ pc = "mkdirSub"
    /\ LET dirPath == join(OUTPUT_DIR, dirNames[subIdx])
           advance ==
               IF subIdx = Len(dirNames)
               THEN pc' = "writeVariables" /\ UNCHANGED subIdx
               ELSE pc' = pc /\ subIdx' = subIdx + 1
       IN  IF dirPath \notin dirs
           THEN \/ dirs' = dirs \cup {dirPath} /\ advance /\ UNCHANGED error
                \/ Throw("mkdirSync") /\ UNCHANGED <<dirs, subIdx>>
           ELSE advance /\ UNCHANGED <<dirs, error>>
    /\ UNCHANGED <<script, cssContent, files, parsedCSS, variables, errors, promise,
                   exitCode>>

ConvertWriteVariables ==
    /\ script = "convert" /\ pc = "writeVariables"
    /\ variables' = extractVariables(parsedCSS)
    /\ WriteFileSync(join(join(OUTPUT_DIR, "base"), "_variables.scss"),
                     generateVariablesFile(variables'), "writeMixins")
    /\ UNCHANGED <<script, cssContent, subIdx, dirs, parsedCSS, errors, promise,
                   exitCode>>

ConvertWriteMixins ==
    /\ script = "convert" /\ pc = "writeMixins"
    /\ WriteFileSync(join(join(OUTPUT_DIR, "base"), "_mixins.scss"),
                     generateMixinsFile, "writeMain")
    /\ UNCHANGED <<script, cssContent, subIdx, dirs, parsedCSS, variables, errors,
                   promise, exitCode>>

ConvertWriteMain ==
    /\ script = "convert" /\ pc = "writeMain"
    /\ WriteFileSync(join(OUTPUT_DIR, "main.scss"), generateMainFile(dirNames),
                     "writeButtons")
    /\ UNCHANGED <<script, cssContent, subIdx, dirs, parsedCSS, variables, errors,
                   promise, exitCode>>

ConvertWriteButtons ==
    /\ script = "convert" /\ pc = "writeButtons"
    /\ WriteFileSync(join(join(OUTPUT_DIR, "components"), "_buttons.scss"),
                     generateSampleComponentFile("buttons"), "writeSections")
    /\ UNCHANGED <<script, cssContent, subIdx, dirs, parsedCSS, variables, errors,
                   promise, exitCode>>

ConvertWriteSections ==
    /\ script = "convert" /\ pc = "writeSections"
    /\ WriteFileSync(join(join(OUTPUT_DIR, "components"), "_sections.scss"),
                     generateSampleComponentFile("sections"), "report")
    /\ UNCHANGED <<script, cssContent, subIdx, dirs, parsedCSS, variables, errors,
                   promise, exitCode>>

(***************************************************************************)
(* optimizeCSS (optimize.js)                                               *)
(***************************************************************************)
OptimizeRead ==
    /\ script = "optimize" /\ pc = "read"
    /\ \/ cssContent' = InputText /\ pc' = "minify" /\ UNCHANGED error
       \/ Throw("readFileSync") /\ UNCHANGED cssContent
    /\ UNCHANGED <<script, subIdx, dirs, files, parsedCSS, variables, errors,
                   promise, exitCode>>

OptimizeMinify ==
    /\ script = "optimize" /\ pc = "minify"
    /\ \/ pc' = "writeOptimized" /\ UNCHANGED error
       \/ Throw("CleanCSS.minify")
    /\ UNCHANGED <<script, cssContent, subIdx, dirs, files, parsedCSS, variables,
                   errors, promise, exitCode>>

OptimizeWrite ==
    /\ script = "optimize" /\ pc = "writeOptimized"
    /\ WriteFileSync(OUTPUT_FILE, "cleanResult.styles", "report")
    /\ UNCHANGED <<script, cssContent, subIdx, dirs, parsedCSS, variables, errors,
                   promise, exitCode>>

(***************************************************************************)
(* analyzeCSS (analyze.js)                                                 *)
(***************************************************************************)
AnalyzeRead ==
    /\ script = "analyze" /\ pc = "read"
    /\ \/ cssContent' = InputText /\ pc' = "stats" /\ UNCHANGED error
       \/ Throw("readFileSync") /\ UNCHANGED cssContent
    /\ UNCHANGED <<script, subIdx, dirs, files, parsedCSS, variables, errors,
                   promise, exitCode>>

AnalyzeStats ==
    /\ script = "analyze" /\ pc = "stats"
    /\ \/ pc' = "report" /\ UNCHANGED error
       \/ Throw("cssStats")
    /\ UNCHANGED <<script, cssContent, subIdx, dirs, files, parsedCSS, variables,
                   errors, promise, exitCode>>

(***************************************************************************)
(* The end of each entry function and of the process.                      *)
(***************************************************************************)
\* the closing console.log calls of the try block, then the function returns
Report ==
    /\ pc = "report"
    /\ pc' = "returned"
    /\ promise' = "fulfilled"
    /\ UNCHANGED <<script, cssContent, subIdx, dirs, files, parsedCSS, variables,
                   error, errors, exitCode>>

ErrorPrefix(s) ==
    CASE s = "convert" -> "Error converting to SCSS:"
      [] s = "optimize" -> "Error optimizing CSS:"
      [] s = "analyze" -> "Error analyzing CSS:"

\* mutant of CatchOutcome: the catch clause rethrows
CatchRethrows == "rejected"

\* what the promise of the entry function becomes once the catch clause is done
CatchOutcome == "fulfilled"

\* catch (error) { console.error(prefix, error); }, then the function returns
Catch ==
    /\ pc = "catch"
    /\ errors' = Append(errors, <<ErrorPrefix(script), error>>)
    /\ pc' = "returned"
    /\ promise' = CatchOutcome
    /\ UNCHANGED <<script, cssContent, subIdx, dirs, files, parsedCSS, variables,
                   error, exitCode>>

\* exit status Node gives a process whose only promise has this state
ExitStatus(p) == IF p = "rejected" THEN 1 ELSE 0

\* the top-level call drops the promise; the event loop drains and the process ends
Exit ==
    /\ pc = "returned"
    /\ pc' = "exited"
    /\ exitCode' = ExitStatus(promise)
    /\ UNCHANGED <<script, cssContent, subIdx, dirs, files, parsedCSS, variables,
                   error, errors, promise>>

Next ==
    \/ ConvertRead
    \/ ConvertParse
    \/ ConvertMkdirOut
    \/ ConvertMkdirSub
    \/ ConvertWriteVariables
    \/ ConvertWriteMixins
    \/ ConvertWriteMain
    \/ ConvertWriteButtons
    \/ ConvertWriteSections
    \/ OptimizeRead
    \/ OptimizeMinify
    \/ OptimizeWrite
    \/ AnalyzeRead
    \/ AnalyzeStats
    \/ Report
    \/ Catch
    \/ Exit

Spec == Init /\ [][Next]_vars

(***************************************************************************)
(* Reading the rendered variables file back: lines, sections, and the name *)
(* and value of an assignment line `$name: value;`.                        *)
(***************************************************************************)
VariablesPath == join(join(OUTPUT_DIR, "base"), "_variables.scss")

\* the lines of a text: the pieces between its line feeds
SplitLines(text) ==
    LET feeds == {i \in 1..Len(text) : Char(text, i) = "\n"}
        n == Cardinality(feeds)
        feed(k) == CHOOSE i \in feeds : Cardinality({j \in feeds : j < i}) = k - 1
        first(k) == IF k = 1 THEN 1 ELSE feed(k - 1) + 1
        last(k) == IF k = n + 1 THEN Len(text) ELSE feed(k) - 1
    IN  [k \in 1..(n + 1) |-> SubSeq(text, first(k), last(k))]

ColorsHeader == "// Color Variables"

SpacingHeader == "// Spacing Variables"

BreakpointsHeader == "// Breakpoint Variables"

Min(S) == CHOOSE x \in S : \A y \in S : x <= y

Max(S) == CHOOSE x \in S : \A y \in S : x >= y

\* the lines that follow `header`, up to the next empty line
Section(lines, header) ==
    LET h == Min({k \in 1..Len(lines) : lines[k] = header})
        e == Min({k \in (h + 1)..Len(lines) : lines[k] = ""})
    IN  SubSeq(lines, h + 1, e - 1)

Separator(line) == Min({k \in 1..Len(line) : StartsAt(line, k, ": ")})

IsAssignment(line) ==
    /\ Len(line) >= 6
    /\ Char(line, 1) = "$"
    /\ Char(line, Len(line)) = ";"
    /\ \E k \in 3..(Len(line) - 3) : StartsAt(line, k, ": ")

LineName(line) == SubSeq(line, 2, Separator(line) - 1)

LineValue(line) == SubSeq(line, Separator(line) + 2, Len(line) - 1)

\* generateVariablesFile has returned and its text has just been written:
\* control is at the statement after the write.  (No later step changes a file
\* already written: StepInOrder, below.)
Rendered == pc = "writeMixins" /\ files[VariablesPath] # Null

RenderedLines == SplitLines(files[VariablesPath])

ColorLines == Section(RenderedLines, ColorsHeader)

SpacingLines == Section(RenderedLines, SpacingHeader)

BreakpointLines == Section(RenderedLines, BreakpointsHeader)

NamesOf(lines) == [i \in 1..Len(lines) |-> LineName(lines[i])]

ValuesOf(lines) == [i \in 1..Len(lines) |-> LineValue(lines[i])]

NamesDiffer(lines) ==
    LET names == NamesOf(lines)
    IN  \A i, j \in 1..Len(names) : i # j => names[i] # names[j]

\* magnitude of a pixel token: its digits read as a decimal number
Magnitude(token) == DecimalValue(token, 1, 0)

(***************************************************************************)
(* C1 (invariants).  In the rendered variables file no two assignment      *)
(* lines of one category (colors, spacing, breakpoints) carry the same     *)
(* variable name.                                                          *)
(***************************************************************************)
C1_NamesUniquePerCategory ==
    Rendered =>
        LET lines == RenderedLines
        IN  /\ NamesDiffer(Section(lines, ColorsHeader))
            /\ NamesDiffer(Section(lines, SpacingHeader))
            /\ NamesDiffer(Section(lines, BreakpointsHeader))

(***************************************************************************)
(* The bucket of a spacing magnitude, as the ranges of the specification.  *)
(***************************************************************************)
RangeBucket(n) ==
    CASE n = 0 -> "none"
      [] n \in 1..4 -> "xs"
      [] n \in 5..8 -> "sm"
      [] n \in 9..16 -> "md"
      [] n \in 17..24 -> "lg"
      [] n \in 25..32 -> "xl"
      [] n > 32 -> "xxl"

BucketsOf(lines) ==
    [i \in 1..Len(lines) |-> RangeBucket(Magnitude(LineValue(lines[i])))]

(***************************************************************************)
(* C2 (functional correctness).  A spacing value that shares its bucket    *)
(* with another value of the sorted spacing sequence is named              *)
(* spacing-<bucket>-<i>, i its 0-based index in the whole sequence; a      *)
(* value alone in its bucket is named spacing-<bucket>.                    *)
(***************************************************************************)
C2_SuffixOnBucketCollision ==
    Rendered =>
        LET names == NamesOf(SpacingLines)
            buckets == BucketsOf(SpacingLines)
        IN  \A i \in 1..Len(names) :
                LET shared == \E j \in 1..Len(names) :
                                  j # i /\ buckets[j] = buckets[i]
                IN  names[i] =
                        IF shared
                        THEN "spacing-" \o buckets[i] \o "-" \o ToString(i - 1)
                        ELSE "spacing-" \o buckets[i]

(***************************************************************************)
(* The tokens of the specification, stated on substrings: an <integer>px   *)
(* token is one or more digits followed by "px"; a color token is "#" and  *)
(* three to six hex digits, or rgb(...) / rgba(...) around one or more     *)
(* characters other than ")".  The first token of a string is the one that *)
(* starts leftmost, taken as long as it goes.                              *)
(***************************************************************************)
IsPxToken(t) ==
    /\ Len(t) >= 3
    /\ SubSeq(t, Len(t) - 1, Len(t)) = "px"
    /\ \A k \in 1..(Len(t) - 2) : IsDigit(Char(t, k))

IsColorToken(t) ==
    \/ /\ Len(t) \in 4..7
       /\ Char(t, 1) = "#"
       /\ \A k \in 2..Len(t) : IsHex(Char(t, k))
    \/ \E head \in {"rgb(", "rgba("} :
          /\ Len(t) >= Len(head) + 2
          /\ SubSeq(t, 1, Len(head)) = head
          /\ Char(t, Len(t)) = ")"
          /\ \A k \in (Len(head) + 1)..(Len(t) - 1) : Char(t, k) # ")"

FirstPxToken(s) ==
    LET ends(i) == {j \in (i + 2)..Len(s) : IsPxToken(SubSeq(s, i, j))}
        starts == {i \in 1..Len(s) : IsDigit(Char(s, i)) /\ ends(i) # {}}
    IN  IF starts = {} THEN Null
        ELSE SubSeq(s, Min(starts), Max(ends(Min(starts))))

FirstColorToken(s) ==
    LET ends(i) == {j \in (i + 3)..Len(s) : IsColorToken(SubSeq(s, i, j))}
        starts == {i \in 1..Len(s) : Char(s, i) \in {"#", "r"} /\ ends(i) # {}}
    IN  IF starts = {} THEN Null
        ELSE SubSeq(s, Min(starts), Max(ends(Min(starts))))

(***************************************************************************)
(* The declarations and conditions of the parsed stylesheet that the       *)
(* specification lets contribute, by position in document order.           *)
(***************************************************************************)
TopRules == parsedCSS.stylesheet.rules

\* <<r, d>>: declaration d of top-level plain rule r
TopDeclarations ==
    UNION {{<<r, d>> : d \in {d \in 1..Len(TopRules[r].declarations) :
                                  TopRules[r].declarations[d].type = "declaration"}} :
           r \in {r \in 1..Len(TopRules) : TopRules[r].type = "rule"}}

DeclAt(p) == TopRules[p[1]].declarations[p[2]]

Before(p, q) == p[1] < q[1] \/ (p[1] = q[1] /\ p[2] < q[2])

ColorHits ==
    {p \in TopDeclarations :
        /\ \E word \in {"color", "background", "border"} :
               Includes(DeclAt(p).property, word)
        /\ FirstColorToken(DeclAt(p).value) # Null}

SpacingHits ==
    {p \in TopDeclarations :
        /\ \E word \in {"margin", "padding"} : Includes(DeclAt(p).property, word)
        /\ FirstPxToken(DeclAt(p).value) # Null}

\* <<r, 0>>: the condition of top-level media rule r
BreakpointHits ==
    {p \in (1..Len(TopRules)) \X {0} :
        /\ TopRules[p[1]].type = "media"
        /\ FirstPxToken(TopRules[p[1]].media) # Null}

ColorOf(p) == FirstColorToken(DeclAt(p).value)

SpacingOf(p) == FirstPxToken(DeclAt(p).value)

BreakpointOf(p) == FirstPxToken(TopRules[p[1]].media)

Range(seq) == {seq[i] : i \in 1..Len(seq)}

NoRepeats(seq) == Cardinality(Range(seq)) = Len(seq)

\* extractVariables has just returned its result into `variables`: control is
\* at the statement after the write that follows it, or in the catch clause
\* when that write threw.  (No later step changes `variables`.)
Extracted == variables # Undefined /\ pc \in {"writeMixins", "catch"}

(***************************************************************************)
(* C5 (functional correctness).  extractVariables returns three            *)
(* deduplicated sets: the first color token of each color/background/      *)
(* border declaration of a top-level plain rule, the first <integer>px     *)
(* token of each margin/padding declaration of such a rule, and the first  *)
(* <integer>px token of each top-level media condition; nothing else.      *)
(***************************************************************************)
C5_ExtractedSets ==
    Extracted =>
        /\ Range(variables.colors) = {ColorOf(p) : p \in ColorHits}
        /\ Range(variables.spacing) = {SpacingOf(p) : p \in SpacingHits}
        /\ Range(variables.breakpoints) = {BreakpointOf(p) : p \in BreakpointHits}
        /\ NoRepeats(variables.colors)
        /\ NoRepeats(variables.spacing)
        /\ NoRepeats(variables.breakpoints)

\* C5's case: a declaration holding several tokens, one holding none, one
\* value met twice, and a media rule that nests a declaration
C5_Witness ==
    /\ Extracted
    /\ \E p \in SpacingHits : DeclAt(p).value = "8px 0 8px 0"
    /\ \E p \in SpacingHits : DeclAt(p).value = "8px"
    /\ \E p \in TopDeclarations : DeclAt(p).value = "auto"
    /\ \E r \in 1..Len(TopRules) :
           TopRules[r].type = "media" /\ Len(TopRules[r].rules) > 0
    /\ variables.colors = <<"#e6ac55">>
    /\ variables.spacing = <<"8px">>
    /\ variables.breakpoints = <<"600px">>

(***************************************************************************)
(* C4 (invariants), as stated.  The spacing and breakpoint sequences are   *)
(* strictly ascending by integer value.                                    *)
(***************************************************************************)
StrictlyAscending(seq) ==
    \A i \in 1..(Len(seq) - 1) : Magnitude(seq[i]) < Magnitude(seq[i + 1])

C4_StrictlyAscending ==
    Extracted =>
        /\ StrictlyAscending(variables.spacing)
        /\ StrictlyAscending(variables.breakpoints)

\* position at which the traversal first meets `token`
FirstHit(hits, of(_), token) ==
    CHOOSE p \in hits :
        /\ of(p) = token
        /\ \A q \in hits : of(q) = token => ~Before(q, p)

AscendingStable(seq, hits, of(_)) ==
    \A i, j \in 1..Len(seq) :
        i < j =>
            /\ Magnitude(seq[i]) <= Magnitude(seq[j])
            /\ Magnitude(seq[i]) = Magnitude(seq[j]) =>
                   Before(FirstHit(hits, of, seq[i]), FirstHit(hits, of, seq[j]))

(***************************************************************************)
(* C4 (invariants), amended.  The spacing and breakpoint sequences are     *)
(* ascending by integer value, not strictly: tokens that differ as strings *)
(* but tie on integer value (8px, 08px) are both kept, in the order the    *)
(* traversal first met them.                                               *)
(***************************************************************************)
C4_AscendingStable ==
    Extracted =>
        /\ AscendingStable(variables.spacing, SpacingHits, SpacingOf)
        /\ AscendingStable(variables.breakpoints, BreakpointHits, BreakpointOf)

\* C4's case: two tokens that tie on integer value, among others
C4_Witness ==
    /\ Extracted
    /\ variables.spacing = <<"5px", "08px", "8px">>

(***************************************************************************)
(* C3 (functional correctness).  The variables text is the colors header,  *)
(* one `$name: value;` line per color in encounter order, an empty line    *)
(* and the spacing header, one line per spacing value in sorted order, an  *)
(* empty line and the breakpoints header, one line per breakpoint in       *)
(* sorted order; each extracted value is the value of exactly one line of  *)
(* its section; an empty stylesheet renders the three headers alone.       *)
(***************************************************************************)
ValueOnce(section, values) ==
    LET rendered == ValuesOf(section)
    IN  \A v \in Range(values) :
            Cardinality({i \in 1..Len(rendered) : rendered[i] = v}) = 1

Carries(lines, from, values) ==
    \A i \in 1..Len(values) :
        /\ IsAssignment(lines[from + i])
        /\ LineValue(lines[from + i]) = values[i]

InEncounterOrder(seq, hits, of(_)) ==
    \A i, j \in 1..Len(seq) :
        i < j => Before(FirstHit(hits, of, seq[i]), FirstHit(hits, of, seq[j]))

C3_TextIsThreeSections ==
    Rendered =>
        LET lines == RenderedLines
            nc == Len(variables.colors)
            ns == Len(variables.spacing)
            nb == Len(variables.breakpoints)
        IN  /\ Len(lines) = nc + ns + nb + 6
            /\ lines[1] = ColorsHeader
            /\ Carries(lines, 1, variables.colors)
            /\ lines[nc + 2] = ""
            /\ lines[nc + 3] = SpacingHeader
            /\ Carries(lines, nc + 3, variables.spacing)
            /\ lines[nc + ns + 4] = ""
            /\ lines[nc + ns + 5] = BreakpointsHeader
            /\ Carries(lines, nc + ns + 5, variables.breakpoints)
            /\ lines[nc + ns + nb + 6] = ""
            /\ ValueOnce(Section(lines, ColorsHeader), variables.colors)
            /\ ValueOnce(Section(lines, SpacingHeader), variables.spacing)
            /\ ValueOnce(Section(lines, BreakpointsHeader), variables.breakpoints)
            /\ InEncounterOrder(variables.colors, ColorHits, ColorOf)
            /\ TopRules = <<>> =>
                   files[VariablesPath] =
                       "// Color Variables\n\n// Spacing Variables\n\n"
                           \o "// Breakpoint Variables\n"

\* C3's case: a rendered file with entries in all three sections
C3_Witness ==
    /\ Rendered
    /\ Len(ColorLines) = 3
    /\ Len(SpacingLines) = 1
    /\ Len(BreakpointLines) = 1

\* C3's other case: the empty stylesheet, rendered
C3_WitnessEmpty ==
    /\ Rendered
    /\ TopRules = <<>>

(***************************************************************************)
(* C6 (functional correctness).  The bucket part of the name of a spacing  *)
(* token of magnitude n is none for 0, xs for 1..4, sm for 5..8, md for    *)
(* 9..16, lg for 17..24, xl for 25..32 and xxl above 32.                   *)
(***************************************************************************)
AllDigits(t) == Len(t) >= 1 /\ \A k \in 1..Len(t) : IsDigit(Char(t, k))

HasBucket(name, bucket) ==
    LET stem == "spacing-" \o bucket
    IN  \/ name = stem
        \/ /\ StartsAt(name, 1, stem \o "-")
           /\ AllDigits(SubSeq(name, Len(stem) + 2, Len(name)))

C6_SpacingBuckets ==
    Rendered =>
        LET names == NamesOf(SpacingLines)
            buckets == BucketsOf(SpacingLines)
        IN  \A i \in 1..Len(names) : HasBucket(names[i], buckets[i])

\* C6's case: a token on a threshold and one just above it, rendered
C6_Witness ==
    /\ Rendered
    /\ SpacingLines = <<"$spacing-sm: 8px;", "$spacing-md: 16px;">>

(***************************************************************************)
(* C7 (functional correctness).  A breakpoint token of magnitude n is      *)
(* named breakpoint-mobile for n <= 480, -tablet for 481..768, -desktop    *)
(* for 769..1024, -widescreen for 1025..1280, -ultrawide above, with no    *)
(* suffix; the condition (max-width: 600px) puts 600px in the breakpoint   *)
(* set, rendered as breakpoint-tablet.                                     *)
(***************************************************************************)
RangeBreakpoint(n) ==
    CASE n \in 0..480 -> "mobile"
      [] n \in 481..768 -> "tablet"
      [] n \in 769..1024 -> "desktop"
      [] n \in 1025..1280 -> "widescreen"
      [] n > 1280 -> "ultrawide"

HasMedia(condition) ==
    \E r \in 1..Len(TopRules) :
        TopRules[r].type = "media" /\ TopRules[r].media = condition

C7_BreakpointNames ==
    Rendered =>
        LET section == BreakpointLines
        IN  /\ \A i \in 1..Len(section) :
                   LineName(section[i]) =
                       "breakpoint-"
                           \o RangeBreakpoint(Magnitude(LineValue(section[i])))
            /\ HasMedia("(max-width: 600px)") =>
                   /\ Has(variables.breakpoints, "600px")
                   /\ Has(section, "$breakpoint-tablet: 600px;")

\* C7's case: the condition (max-width: 600px), rendered
C7_Witness ==
    /\ Rendered
    /\ HasMedia("(max-width: 600px)")
    /\ Len(BreakpointLines) = 2

(***************************************************************************)
(* C8 (functional correctness).  The color at 0-based position i is named  *)
(* by the override table when its value is exactly #0d0c0d, #f0f0f0,       *)
(* #e6ac55, #FFFFFF or #ffffff, whatever i is, and color-<i+1> otherwise;  *)
(* the comparison is case-sensitive.                                       *)
(***************************************************************************)
Overrides ==
    { <<"#0d0c0d", "color-dark">>, <<"#f0f0f0", "color-light">>,
      <<"#e6ac55", "color-accent">>, <<"#FFFFFF", "color-white">>,
      <<"#ffffff", "color-white">> }

C8_ColorNames ==
    Rendered =>
        LET names == NamesOf(ColorLines)
            values == ValuesOf(ColorLines)
        IN  /\ values = variables.colors
            /\ \A i \in 1..Len(names) :
                   /\ \A o \in Overrides : values[i] = o[1] => names[i] = o[2]
                   /\ (\A o \in Overrides : values[i] # o[1]) =>
                          names[i] = "color-" \o ToString(i)

\* C8's case: an override value met second, after the same digits in upper case
C8_Witness ==
    /\ Rendered
    /\ ColorLines = <<"$color-1: #E6AC55;", "$color-accent: #e6ac55;">>

(***************************************************************************)
(* The converter's effects in the order the specification gives them.      *)
(***************************************************************************)
DirOrder ==
    <<OUTPUT_DIR, join(OUTPUT_DIR, "base"), join(OUTPUT_DIR, "components"),
      join(OUTPUT_DIR, "layout"), join(OUTPUT_DIR, "utilities")>>

FileOrder ==
    <<VariablesPath, join(join(OUTPUT_DIR, "base"), "_mixins.scss"),
      join(OUTPUT_DIR, "main.scss"),
      join(join(OUTPUT_DIR, "components"), "_buttons.scss"),
      join(join(OUTPUT_DIR, "components"), "_sections.scss")>>

Failed == error # Null

\* a step that parses, makes a directory, extracts or writes a file comes after
\* all the steps before it and before all the steps after it
StepInOrder ==
    /\ parsedCSS' # parsedCSS =>
           /\ cssContent # Null
           /\ dirs' = dirs
           /\ \A f \in FileNames : files'[f] = Null
    /\ dirs' # dirs =>
           /\ parsedCSS # Undefined
           /\ \E k \in 1..Len(DirOrder) :
                  /\ DirOrder[k] \notin dirs
                  /\ dirs' = dirs \cup {DirOrder[k]}
                  /\ \A m \in 1..(k - 1) : DirOrder[m] \in dirs
           /\ \A f \in FileNames : files'[f] = Null
    /\ variables' # variables =>
           /\ variables = Undefined
           /\ Range(DirOrder) \subseteq dirs
           /\ \A f \in FileNames : files[f] = Null
    /\ files' # files =>
           /\ Range(DirOrder) \subseteq dirs
           /\ \E k \in 1..Len(FileOrder) :
                  /\ files' = [files EXCEPT ![FileOrder[k]] = files'[FileOrder[k]]]
                  /\ \A m \in 1..(k - 1) : files[FileOrder[m]] # Null
                  /\ \A m \in k..Len(FileOrder) : files[FileOrder[m]] = Null

\* the step that fails changes nothing on disk, and once a step has failed no
\* step runs: only the catch clause and the end of the process follow
AbortOnFailure ==
    /\ (~Failed /\ Failed') => dirs' = dirs /\ files' = files /\ pc' = "catch"
    /\ Failed => /\ error' = error
                 /\ dirs' = dirs
                 /\ files' = files
                 /\ cssContent' = cssContent
                 /\ parsedCSS' = parsedCSS
                 /\ variables' = variables
                 /\ pc' \in {"returned", "exited"}
    /\ Len(errors') <= 1

\* a run in which no step failed ends with every directory and file in place
CompleteUnlessFailed ==
    (pc' = "exited" /\ ~Failed') =>
        /\ Range(DirOrder) \subseteq dirs'
        /\ \A k \in 1..Len(FileOrder) : files'[FileOrder[k]] # Null

(***************************************************************************)
(* C9 (error handling).  The converter reads, parses, creates the output   *)
(* directory and the four subdirectories (each only if absent) and writes  *)
(* the five files, in that order; a step that fails ends the run: no later *)
(* step is executed, nothing is retried, what was done stays; a run with   *)
(* no failure ends with all four subdirectories and all five files.        *)
(***************************************************************************)
C9_StepsInOrderAbortOnFailure ==
    [][script = "convert" =>
           StepInOrder /\ AbortOnFailure /\ CompleteUnlessFailed]_vars

\* C9's case: the run has ended after the third write failed, and the output
\* directory is left with two of the five files
C9_Witness ==
    /\ script = "convert"
    /\ pc = "exited"
    /\ error = "writeFileSync"
    /\ Range(DirOrder) \subseteq dirs
    /\ files[FileOrder[2]] # Null
    /\ files[FileOrder[3]] = Null

(***************************************************************************)
(* C10 (error handling), as stated.  After a failed read, parse / minify / *)
(* stats call or write, the error is logged once with the script's prefix  *)
(* and the process exits non-zero: the promise of the entry function is    *)
(* rejected.                                                               *)
(***************************************************************************)
ClaimedFailures ==
    {"readFileSync", "css.parse", "CleanCSS.minify", "cssStats", "writeFileSync"}

PrefixOf(s) ==
    CASE s = "convert" -> "Error converting to SCSS:"
      [] s = "optimize" -> "Error optimizing CSS:"
      [] s = "analyze" -> "Error analyzing CSS:"

LoggedOnce == errors = << <<PrefixOf(script), error>> >>

C10_ExitsNonZeroByRejection ==
    (pc = "exited" /\ error \in ClaimedFailures) =>
        /\ LoggedOnce
        /\ promise = "rejected"
        /\ exitCode # 0

(***************************************************************************)
(* C10 (error handling), amended.  After a failed read, parse / minify /   *)
(* stats call or write, the error is caught by the script's one catch      *)
(* clause and logged once with the script's prefix; the catch clause       *)
(* swallows it, so the promise of the entry function is fulfilled, not     *)
(* rejected, and the process exits with status 0.  A run without a failure *)
(* logs no error.                                                          *)
(***************************************************************************)
C10_LoggedOnceThenExitsZero ==
    /\ (pc \in {"returned", "exited"} /\ error \in ClaimedFailures) =>
           /\ LoggedOnce
           /\ promise = "fulfilled"
    /\ (pc = "exited" /\ error \in ClaimedFailures) => exitCode = 0
    /\ ~Failed => errors = <<>>

\* C10's case: the optimizer has ended after its write failed
C10_Witness ==
    /\ script = "optimize"
    /\ pc = "exited"
    /\ error = "writeFileSync"
    /\ LoggedOnce

====
